---- MODULE Spec2Model ----
(***************************************************************************)
(* Mean-reversion backtest (src/MRS/MRS Versions/MRS v2.5.py).             *)
(*                                                                         *)
(* The script builds a price frame df, calls backtest_mean_reversion once  *)
(* per grid point (dynamic_position=False) and once more at the best       *)
(* parameters (dynamic_position=True), and then walks the final position   *)
(* column to build the trade log.                                          *)
(*                                                                         *)
(* Real-valued columns are kept as exact fixed-point integers:             *)
(*   returns                      in 1/RetScale            (per mille)     *)
(*   z_score, z_entry, z_exit     in 1/ZScale              (tenths)        *)
(*   position, position_lag       in 1/PosScale                            *)
(*   strategy_raw/clipped/net,                                             *)
(*   trade_cost                   in 1/NetScale = 1/(RetScale*PosScale)    *)
(*   equity_curve[t]              numerator over NetScale^t, as a          *)
(*                                little-endian digit string base BigBase  *)
(*   buy_hold_curve[t]            numerator over RetScale^t, likewise      *)
(* The input sets below are chosen so that every quotient the code takes   *)
(* is exact at these scales.                                               *)
(***************************************************************************)
EXTENDS Integers, Sequences, FiniteSets, TLC

VARIABLES
    pc,          \* position of the script
    input,       \* df (Close, returns, index) and the pandas outputs computed from it
    params,      \* arguments of the call of backtest_mean_reversion
    data,        \* the frame `data` built by backtest_mean_reversion
    input2,      \* a second, independent run (two-run properties)
    data2,
    i,           \* trade log loop index
    in_position,
    entry_price,
    entry_date,
    position_type,
    trades,
    trades_df,
    frames,      \* df with the ewm outputs of each window of the grid
    grid,        \* the three parameter lists of the grid search
    point,       \* number of grid points the search loop has taken
    results,     \* the list `results` of the search loop
    top_5,       \* head of the results sorted by Sharpe
    best,        \* first row of the sorted results
    calls,       \* arguments of every call of backtest_mean_reversion so far
    tetris_grid,   \* Tetris.grid (src/tetris.py)
    current_shape, \* Tetris.current_shape
    shape_pos,     \* Tetris.shape_pos, <<row, column>> counted from 0
    score,         \* Tetris.score
    highscore,     \* Tetris.highscore
    game_over,     \* Tetris.game_over
    running,       \* local `running` of Tetris.run
    shapes,        \* number of shapes new_shape has drawn
    colors_hsv,    \* the list the visualizer sorts (src/sortingalgoviualised.py)
    shuffled,      \* colors_hsv as it was drawn
    selected_sort, \* local of main
    sorting,       \* local of main
    sorter         \* local of main: the generator, or None

vars == <<pc, input, params, data, input2, data2, i, in_position, entry_price,
          entry_date, position_type, trades, trades_df,
          frames, grid, point, results, top_5, best, calls,
          tetris_grid, current_shape, shape_pos, score, highscore, game_over,
          running, shapes,
          colors_hsv, shuffled, selected_sort, sorting, sorter>>

runVars == <<input, params, data>>
run2Vars == <<input2, data2>>
logVars == <<i, in_position, entry_price, entry_date, position_type, trades, trades_df>>
gridVars == <<frames, grid, point, results, top_5, best, calls>>
scriptVars == <<pc, runVars, run2Vars, logVars, gridVars>>
tetrisVars == <<tetris_grid, current_shape, shape_pos, score, highscore, game_over,
                running, shapes>>
sortVars == <<colors_hsv, shuffled, selected_sort, sorting, sorter>>
gameVars == <<tetrisVars, sortVars>>

-----------------------------------------------------------------------------
(* Bounds of the model *)

MaxDays == 3

(* Fixed-point scales *)
RetScale == 1000
ZScale == 10
PosScale == 12
NetScale == RetScale * PosScale
BigBase == 10000

(* Program constants, lines 14-17 *)
initial_capital == 10000
cost_per_trade == 1
stop_loss == -30
take_profit == 50

(* Parameter grid, lines 140-141 *)
z_entries == {10, 15, 20}
z_exits == {3, 5, 7}

(* rolling(10) of the volatility filter, line 68 *)
VolWindow == 10

(* pandas' missing value: never greater than, less than or equal to a number *)
NaN == -1

-----------------------------------------------------------------------------
(* Arithmetic helpers *)

Abs(x) == IF x < 0 THEN -x ELSE x

Sign(x) == IF x > 0 THEN 1 ELSE IF x < 0 THEN -1 ELSE 0

Clip(x, lo, hi) == IF x < lo THEN lo ELSE IF x > hi THEN hi ELSE x

RECURSIVE Pow(_, _)
Pow(b, e) == IF e = 0 THEN 1 ELSE b * Pow(b, e - 1)

(* digits of a natural number, little-endian base BigBase *)
RECURSIVE BigOf(_)
BigOf(n) == IF n = 0 THEN <<>> ELSE <<n % BigBase>> \o BigOf(n \div BigBase)

(* digit string d times the small natural m, plus carry c *)
RECURSIVE BigMulCarry(_, _, _)
BigMulCarry(d, m, c) ==
    IF d = <<>>
    THEN BigOf(c)
    ELSE LET v == Head(d) * m + c
         IN  <<v % BigBase>> \o BigMulCarry(Tail(d), m, v \div BigBase)

BigMul(d, m) == IF m = 0 THEN <<>> ELSE BigMulCarry(d, m, 0)

-----------------------------------------------------------------------------
(* The input frame df, lines 28-36, and the pandas outputs the strategy reads *)

MarketReturns == {-60, -10, 20}

BasePrice == Pow(100, MaxDays)

PriceUnit == BasePrice \div 100

RECURSIVE GCD(_, _)
GCD(a, b) == IF b = 0 THEN a ELSE GCD(b, a % b)

(* lines 34-36: returns = Close.pct_change(), the first row dropped. The frame is
   drawn by its returns r[1..n]; Close[t] is the close of the dropped row grown
   by (1 + r[1]) ... (1 + r[t]), each factor taken in lowest terms *)
RECURSIVE PricePath(_, _)
PricePath(r, t) ==
    IF t = 0 THEN BasePrice
    ELSE LET g == GCD(RetScale, RetScale + r[t])
         IN  (PricePath(r, t - 1) \div (RetScale \div g)) * ((RetScale + r[t]) \div g)

(* df.index: consecutive trading days starting on a Thursday, weekends skipped *)
TradingDate(t) == 3 + t + 2 * ((t + 2) \div 5)

(* (Close - mean, std) of a day in PriceUnit: z = -2, -0.5, 0, 0, 0.5, 2 *)
Deviations == {<<-4, 2>>, <<-1, 2>>, <<0, 2>>, <<0, 0>>, <<1, 2>>, <<4, 2>>}

(* rolling(10).std() of returns: NaN until the window is full *)
VolLevels == {1, 2}

VolatilityCols(n) ==
    { [t \in 1..n |-> IF t < VolWindow THEN NaN ELSE f[t]] :
        f \in [VolWindow..n -> VolLevels] }

(* quantile(0.9) lies between the least and the greatest non-missing value *)
Quantiles(v) ==
    LET known == { v[t] : t \in { u \in DOMAIN v : v[u] # NaN } }
    IN  IF known = {} THEN {NaN}
        ELSE { q \in VolLevels : (\E a \in known : a <= q) /\ (\E b \in known : q <= b) }

(* a frame of n rows: growth factors r, deviations dv, volatility v, threshold q *)
Frame(n, r, dv, v, q) ==
    [ Close      |-> [t \in 1..n |-> PricePath(r, t)],
      returns    |-> r,
      index      |-> [t \in 1..n |-> TradingDate(t)],
      \* ewm(span=window, adjust=False).mean(): seeded from the first observation
      mean       |-> [t \in 1..n |-> IF t = 1 THEN PricePath(r, t)
                                     ELSE PricePath(r, t) - dv[t][1] * PriceUnit],
      \* ewm(span=window, adjust=False).std(): missing on the first row
      std        |-> [t \in 1..n |-> IF t = 1 THEN NaN ELSE dv[t][2] * PriceUnit],
      volatility |-> v,
      vol_threshold |-> q ]

Frames(n, R, D) ==
    { Frame(n, r, dv, v, q) :
        r \in [1..n -> R], dv \in [1..n -> D],
        v \in VolatilityCols(n), q \in VolLevels \cup {NaN} }

-----------------------------------------------------------------------------
(* backtest_mean_reversion, lines 56-136, column by column *)

Len0(inp) == Len(inp.Close)

(* the guard of np.where left out: 0/0 on a day without dispersion is missing *)
ZScoreColNoGuard(inp) ==
    [t \in 1..Len0(inp) |->
        IF inp.std[t] = NaN THEN 0
        ELSE IF inp.std[t] = 0 THEN NaN
        ELSE (ZScale * (inp.Close[t] - inp.mean[t])) \div inp.std[t]]

(* lines 62-64: np.where(std > 0, (Close - mean) / std, 0) *)
ZScoreCol(inp) ==
    [t \in 1..Len0(inp) |->
        IF inp.std[t] # NaN /\ inp.std[t] > 0
        THEN (ZScale * (inp.Close[t] - inp.mean[t])) \div inp.std[t]
        ELSE 0]

(* lines 67-70: zero the z-score where volatility > vol_threshold *)
VolFilterCol(z, inp, p) ==
    IF p.filter_vol
    THEN [t \in DOMAIN z |->
            IF inp.volatility[t] # NaN /\ inp.vol_threshold # NaN
               /\ inp.volatility[t] > inp.vol_threshold
            THEN 0 ELSE z[t]]
    ELSE z

(* the entry band taken from z_exit *)
SignalOfExitBand(z, p) ==
    LET s1 == IF z < -p.z_exit THEN 1 ELSE 0
        s2 == IF z > p.z_exit THEN -1 ELSE s1
        s3 == IF Abs(z) < p.z_exit THEN 0 ELSE s2
    IN  s3

(* a slip of the sign convention: long above the band, short below it *)
SignalOfSwapped(z, p) ==
    LET s1 == IF z < -p.z_entry THEN -1 ELSE 0
        s2 == IF z > p.z_entry THEN 1 ELSE s1
        s3 == IF Abs(z) < p.z_exit THEN 0 ELSE s2
    IN  s3

(* lines 73-76: three overwrites of the signal column, in this order *)
SignalOf(z, p) ==
    LET s0 == 0
        s1 == IF z < -p.z_entry THEN 1 ELSE s0
        s2 == IF z > p.z_entry THEN -1 ELSE s1
        s3 == IF Abs(z) < p.z_exit THEN 0 ELSE s2
    IN  s3

SignalCol(z, p) == [t \in DOMAIN z |-> SignalOf(z[t], p)]

(* line 79: signal.replace(0, method='ffill').fillna(0): every 0 is replaced by
   the last value before it that is not 0; leading zeros stay *)
RECURSIVE FFill(_, _)
FFill(signal, t) ==
    IF signal[t] # 0 THEN signal[t]
    ELSE IF t = 1 THEN 0
    ELSE FFill(signal, t - 1)

(* the forward fill left out: the position is the day's own signal *)
PositionColNoFill(signal) == [t \in DOMAIN signal |-> PosScale * signal[t]]

PositionCol(signal) == [t \in DOMAIN signal |-> PosScale * FFill(signal, t)]

(* np.clip left out: the size grows with the z-score without limit *)
DynamicColNoClip(position, z, p) ==
    IF p.dynamic_position
    THEN [t \in DOMAIN position |->
            Sign(position[t]) * Abs((-z[t] * PosScale) \div p.z_entry)]
    ELSE position

(* the sign of the held position left out: the size alone is the position *)
DynamicColSizeOnly(position, z, p) ==
    IF p.dynamic_position
    THEN [t \in DOMAIN position |->
            Clip((-z[t] * PosScale) \div p.z_entry, -PosScale, PosScale)]
    ELSE position

(* lines 82-84: np.sign(position) * abs(np.clip(-z_score / z_entry, -1, 1)) *)
DynamicCol(position, z, p) ==
    IF p.dynamic_position
    THEN [t \in DOMAIN position |->
            Sign(position[t])
              * Abs(Clip((-z[t] * PosScale) \div p.z_entry, -PosScale, PosScale))]
    ELSE position

(* the shift left out: the day's own position earns the day's return *)
LagColNoShift(position) == position

(* line 87: position.shift(1).fillna(0) *)
LagCol(position) ==
    [t \in DOMAIN position |-> IF t = 1 THEN 0 ELSE position[t - 1]]

(* line 88 *)
RawCol(position_lag, returns) ==
    [t \in DOMAIN returns |-> position_lag[t] * returns[t]]

(* only the loss side is limited *)
ClippedColLossOnly(strategy_raw) ==
    [t \in DOMAIN strategy_raw |->
        IF strategy_raw[t] < stop_loss * PosScale THEN stop_loss * PosScale
        ELSE strategy_raw[t]]

(* line 91: np.clip(strategy_raw, stop_loss, take_profit) *)
ClippedCol(strategy_raw) ==
    [t \in DOMAIN strategy_raw |->
        Clip(strategy_raw[t], stop_loss * PosScale, take_profit * PosScale)]

(* diff(-1): the change to the next row instead of from the previous one *)
PositionChangeAhead(position) ==
    [t \in DOMAIN position |->
        IF t = Len(position) THEN 0 ELSE Abs(position[t + 1] - position[t])]

(* only a change of side counts as a change of position *)
PositionChangeSides(position) ==
    [t \in DOMAIN position |->
        IF t = 1 THEN 0
        ELSE PosScale * Abs(Sign(position[t]) - Sign(position[t - 1]))]

(* line 94: abs(position.diff().fillna(0)) *)
PositionChangeCol(position) ==
    [t \in DOMAIN position |-> IF t = 1 THEN 0 ELSE Abs(position[t] - position[t - 1])]

(* the cost rate left out of the product *)
TradeCostColFree(position_change) == [t \in DOMAIN position_change |-> 0]

(* line 95 *)
TradeCostCol(position_change) ==
    [t \in DOMAIN position_change |-> cost_per_trade * position_change[t]]

(* line 96 *)
NetCol(strategy_clipped, trade_cost) ==
    [t \in DOMAIN strategy_clipped |-> strategy_clipped[t] - trade_cost[t]]

(* (1 + x).cumprod() at row t, x in 1/scale: numerator over scale^t *)
RECURSIVE CumProd(_, _, _)
CumProd(x, scale, t) ==
    IF t = 0 THEN BigOf(1) ELSE BigMul(CumProd(x, scale, t - 1), scale + x[t])

(* line 99: initial_capital * (1 + strategy_net).cumprod() *)
EquityCol(strategy_net) ==
    [t \in DOMAIN strategy_net |->
        BigMul(CumProd(strategy_net, NetScale, t), initial_capital)]

(* line 102: initial_capital * (1 + returns).cumprod() *)
BuyHoldCol(returns) ==
    [t \in DOMAIN returns |-> BigMul(CumProd(returns, RetScale, t), initial_capital)]

RECURSIVE SumCol(_, _)
SumCol(x, t) == IF t = 0 THEN 0 ELSE SumCol(x, t - 1) + x[t]

RECURSIVE GcdCol(_, _)
GcdCol(x, t) == IF t = 0 THEN 0 ELSE GCD(GcdCol(x, t - 1), Abs(x[t]))

(* the value every `else 0` branch of the Sharpe ratio returns *)
SharpeZero == [sign |-> 0, num |-> 0, den |-> 1]

(* lines 113-116: sqrt(252) * mean / std if std > 0 else 0, std with ddof = 1.
   With S the sum of the column and Q the sum of its squares over n rows,
   mean / std = S * sqrt((n - 1) / n) / sqrt(n * Q - S * S). All columns of one
   frame have the same n, so the ratio is kept as the sign of S and the
   fraction S * S / (n * Q - S * S) in lowest terms; the column is first
   divided by the common factor of its entries, which the ratio ignores.
   std is missing for a single row and `NaN > 0` is false. *)
SharpeOf(strategy_net) ==
    LET n == Len(strategy_net)
        g == GcdCol(strategy_net, n)
        x == [t \in 1..n |-> IF g = 0 THEN 0 ELSE strategy_net[t] \div g]
        S == SumCol(x, n)
        Q == SumCol([t \in 1..n |-> x[t] * x[t]], n)
        D == n * Q - S * S
        c == GCD(S * S, D)
    IN  IF n < 2 \/ D = 0 \/ S = 0 THEN SharpeZero
        ELSE [sign |-> Sign(S), num |-> (S * S) \div c, den |-> D \div c]

(* every day counts in the denominator, flat days included *)
WinRateOfAllDays(strategy_net) ==
    LET winning_days == Cardinality({t \in DOMAIN strategy_net : strategy_net[t] > 0})
    IN  IF Len(strategy_net) > 0
        THEN [num |-> winning_days * 100, den |-> Len(strategy_net)]
        ELSE [num |-> 0, den |-> 1]

(* lines 124-126: winning_days / (winning_days + losing_days) * 100 if there is
   such a day, else 0; the quotient is kept as a fraction num / den *)
WinRateOf(strategy_net) ==
    LET winning_days == Cardinality({t \in DOMAIN strategy_net : strategy_net[t] > 0})
        losing_days  == Cardinality({t \in DOMAIN strategy_net : strategy_net[t] < 0})
    IN  IF winning_days + losing_days > 0
        THEN [num |-> winning_days * 100, den |-> winning_days + losing_days]
        ELSE [num |-> 0, den |-> 1]

backtest_mean_reversion(inp, p) ==
    LET z0    == ZScoreCol(inp)
        z     == VolFilterCol(z0, inp, p)
        sig   == SignalCol(z, p)
        held  == PositionCol(sig)
        pos   == DynamicCol(held, z, p)
        lag   == LagCol(pos)
        raw   == RawCol(lag, inp.returns)
        clp   == ClippedCol(raw)
        chg   == PositionChangeCol(pos)
        cost  == TradeCostCol(chg)
        net   == NetCol(clp, cost)
    IN  [ Close            |-> inp.Close,
          returns          |-> inp.returns,
          index            |-> inp.index,
          z_score          |-> z,
          signal           |-> sig,
          held             |-> held,
          position         |-> pos,
          position_lag     |-> lag,
          strategy_raw     |-> raw,
          strategy_clipped |-> clp,
          position_change  |-> chg,
          trade_cost       |-> cost,
          strategy_net     |-> net,
          equity_curve     |-> EquityCol(net),
          buy_hold_curve   |-> BuyHoldCol(inp.returns),
          sharpe           |-> SharpeOf(net),
          win_rate         |-> WinRateOf(net) ]

-----------------------------------------------------------------------------
(* The script *)

NoFrame == <<>>

Params == [z_entry : z_entries, z_exit : z_exits,
           dynamic_position : BOOLEAN, filter_vol : {TRUE}]

LogInit ==
    /\ i = 0
    /\ in_position = FALSE
    /\ entry_price = NaN
    /\ entry_date = NaN
    /\ position_type = "None"
    /\ trades = <<>>
    /\ trades_df = <<>>

NoBest == <<>>

(* the state of the grid search before the search loop starts *)
GridInit ==
    /\ point = 0
    /\ results = <<>>
    /\ top_5 = <<>>
    /\ best = NoBest
    /\ calls = <<>>

(* specifications of a single call or of the trade log alone have no grid *)
NoGrid ==
    /\ frames = NoFrame
    /\ grid = <<>>
    /\ GridInit

(* line 211: sorter = None *)
NoSorter == [kind |-> "None"]

(* the backtest script does not run the games: their variables stay idle *)
NoTetris ==
    /\ tetris_grid = <<>>
    /\ current_shape = <<>>
    /\ shape_pos = <<0, 0>>
    /\ score = 1
    /\ highscore = 1
    /\ game_over = FALSE
    /\ running = FALSE
    /\ shapes = 0

NoSort ==
    /\ colors_hsv = <<>>
    /\ shuffled = <<>>
    /\ selected_sort = "bubble"
    /\ sorting = FALSE
    /\ sorter = NoSorter

NoGames == NoTetris /\ NoSort

Init ==
    /\ pc = "call"
    /\ \E n \in 1..MaxDays : input \in Frames(n, MarketReturns, Deviations)
    /\ input.vol_threshold \in Quantiles(input.volatility)
    /\ params \in Params
    /\ data = NoFrame
    /\ input2 = NoFrame
    /\ data2 = NoFrame
    /\ LogInit
    /\ NoGrid
    /\ NoGames

(* line 148: one grid point, dynamic_position=False, filter_vol=True *)
GridCall ==
    /\ pc = "call"
    /\ ~params.dynamic_position
    /\ data' = backtest_mean_reversion(input, params)
    /\ pc' = "done"
    /\ UNCHANGED <<input, params, run2Vars, gameVars, logVars, gridVars>>

(* lines 182-189: the final run, dynamic_position=True, filter_vol=True;
   best_df = final_result['data'] is the frame the trade log reads *)
FinalCall ==
    /\ pc = "call"
    /\ params.dynamic_position
    /\ data' = backtest_mean_reversion(input, params)
    /\ pc' = "tradelog"
    /\ UNCHANGED <<input, params, run2Vars, gameVars, logVars, gridVars>>

-----------------------------------------------------------------------------
(* The trade log loop, lines 212-262; i counts from 0 as in the code, row i of
   the frame is element i + 1 of a column *)

(* iloc[i] for iloc[i - 1]: the row is compared with itself *)
PrevPosCurrent(position, k) == position[k + 1]

(* best_df['position'].iloc[i - 1]: at i = 0 the index -1 is the last row *)
PrevPos(position, k) == position[IF k = 0 THEN Len(position) ELSE k]

(* the test of the position left out: a flat row opens a trade too *)
EntryCondAlways(inpos, current_pos) == ~inpos

(* line 224 *)
EntryCond(inpos, current_pos) == ~inpos /\ current_pos # 0

(* line 231: `and` and `or` evaluate from the left and stop early, so
   best_df['position'].iloc[i - 1] is read only if in_position holds and
   current_pos == 0 does not *)
ReadsPrev(inpos, current_pos) == inpos /\ current_pos # 0

(* a flat row does not close the trade: only a change of side does *)
ExitCondReversalOnly(inpos, current_pos, prev_pos) ==
    inpos /\ current_pos # 0 /\ Sign(current_pos) # Sign(prev_pos)

(* any change of the position closes the trade, a change of size included *)
ExitCondAnyChange(inpos, current_pos, prev_pos) == inpos /\ current_pos # prev_pos

(* line 231 *)
ExitCond(inpos, current_pos, prev_pos) ==
    inpos /\ (current_pos = 0 \/ Sign(current_pos) # Sign(prev_pos))

(* the sides exchanged *)
TypeOfFlipped(current_pos) == IF current_pos > 0 THEN "Short" ELSE "Long"

(* lines 228, 258 *)
TypeOf(current_pos) == IF current_pos > 0 THEN "Long" ELSE "Short"

(* lines 236-239: the fraction whose hundredfold is 'Return %' *)
PnlOf(ptype, entry, exit) ==
    IF ptype = "Long" THEN [num |-> exit - entry, den |-> entry]
    ELSE [num |-> entry - exit, den |-> entry]

(* the two dates exchanged *)
TradeOfSwapped(edate, xdate, ptype, entry, exit) ==
    [ Entry_Date |-> xdate,
      Exit_Date  |-> edate,
      Days       |-> edate - xdate,
      Type       |-> ptype,
      Entry      |-> entry,
      Exit       |-> exit,
      Return     |-> PnlOf(ptype, entry, exit) ]

(* lines 243-251; strftime('%Y-%m-%d') renders the day, kept here as its ordinal *)
TradeOf(edate, xdate, ptype, entry, exit) ==
    [ Entry_Date |-> edate,
      Exit_Date  |-> xdate,
      Days       |-> xdate - edate,
      Type       |-> ptype,
      Entry      |-> entry,
      Exit       |-> exit,
      Return     |-> PnlOf(ptype, entry, exit) ]

(* lines 224-228: entry, the position leaves 0 *)
TradeEntry ==
    /\ pc = "tradelog"
    /\ i < Len(data.position)
    /\ LET current_pos == data.position[i + 1]
           price == data.Close[i + 1]
           date == data.index[i + 1]
       IN  /\ EntryCond(in_position, current_pos)
           /\ in_position' = TRUE
           /\ entry_price' = price
           /\ entry_date' = date
           /\ position_type' = TypeOf(current_pos)
    /\ i' = i + 1
    /\ UNCHANGED <<pc, runVars, run2Vars, gameVars, gridVars, trades, trades_df>>

(* lines 231-260: exit, the position becomes 0 or changes sign; on a change of
   sign a new position is entered at once *)
TradeExit ==
    /\ pc = "tradelog"
    /\ i < Len(data.position)
    /\ LET current_pos == data.position[i + 1]
           price == data.Close[i + 1]
           date == data.index[i + 1]
       IN  /\ ~EntryCond(in_position, current_pos)
           /\ ExitCond(in_position, current_pos, PrevPos(data.position, i))
           /\ trades' = Append(trades,
                    TradeOf(entry_date, date, position_type, entry_price, price))
           /\ IF current_pos # 0
              THEN /\ in_position' = TRUE
                   /\ entry_price' = price
                   /\ entry_date' = date
                   /\ position_type' = TypeOf(current_pos)
              ELSE /\ in_position' = FALSE
                   /\ UNCHANGED <<entry_price, entry_date, position_type>>
    /\ i' = i + 1
    /\ UNCHANGED <<pc, runVars, run2Vars, gameVars, gridVars, trades_df>>

(* neither branch: the row changes nothing *)
TradeSkip ==
    /\ pc = "tradelog"
    /\ i < Len(data.position)
    /\ LET current_pos == data.position[i + 1]
       IN  /\ ~EntryCond(in_position, current_pos)
           /\ ~ExitCond(in_position, current_pos, PrevPos(data.position, i))
    /\ i' = i + 1
    /\ UNCHANGED <<pc, runVars, run2Vars, gameVars, gridVars, in_position, entry_price, entry_date,
                   position_type, trades, trades_df>>

(* line 262: trades_df = pd.DataFrame(trades) *)
TradeLogEnd ==
    /\ pc = "tradelog"
    /\ i = Len(data.position)
    /\ trades_df' = trades
    /\ pc' = "done"
    /\ UNCHANGED <<runVars, run2Vars, gameVars, gridVars, i, in_position, entry_price, entry_date,
                   position_type, trades>>

Next ==
    \/ GridCall
    \/ FinalCall
    \/ TradeEntry
    \/ TradeExit
    \/ TradeSkip
    \/ TradeLogEnd

Spec == Init /\ [][Next]_vars

-----------------------------------------------------------------------------
(* Two calls of backtest_mean_reversion on frames that differ in one cell *)

MaxDays2 == 3

MarketReturns2 == {-60, 20}

Deviations2 == {<<-4, 2>>, <<-1, 2>>, <<0, 2>>, <<4, 2>>}

Params2 == [z_entry : {10}, z_exit : {3}, dynamic_position : BOOLEAN, filter_vol : {TRUE}]

InitTwoRun ==
    /\ pc = "call"
    /\ params \in Params2
    /\ \E n \in 1..MaxDays2 :
       \E r \in [1..n -> MarketReturns2], dv \in [1..n -> Deviations2], j \in 1..n :
         /\ input = Frame(n, r, dv, [t \in 1..n |-> NaN], NaN)
         /\ \/ \E x \in MarketReturns2 \ {r[j]} :
                 input2 = Frame(n, [r EXCEPT ![j] = x], dv, [t \in 1..n |-> NaN], NaN)
            \/ \E y \in Deviations2 \ {dv[j]} :
                 input2 = Frame(n, r, [dv EXCEPT ![j] = y], [t \in 1..n |-> NaN], NaN)
    /\ data = NoFrame
    /\ data2 = NoFrame
    /\ LogInit
    /\ NoGrid
    /\ NoGames

CallBoth ==
    /\ pc = "call"
    /\ data' = backtest_mean_reversion(input, params)
    /\ data2' = backtest_mean_reversion(input2, params)
    /\ pc' = "done"
    /\ UNCHANGED <<input, input2, params, logVars, gridVars, gameVars>>

NextTwoRun == CallBoth

SpecTwoRun == InitTwoRun /\ [][NextTwoRun]_vars

-----------------------------------------------------------------------------
(* The trade log loop on the position column of a final run over longer series *)

MaxRows == 4

ZValues == {-20, -5, 0, 5, 20}

Prices == {99, 102}

LogParams == [z_entry : z_entries, z_exit : {3}, dynamic_position : {TRUE},
              filter_vol : {TRUE}]

(* the columns of best_df the loop reads, with the z-score they come from *)
LogFrame(z, c, p) ==
    [ Close    |-> c,
      index    |-> [t \in DOMAIN z |-> TradingDate(t)],
      z_score  |-> z,
      held     |-> PositionCol(SignalCol(z, p)),
      position |-> DynamicCol(PositionCol(SignalCol(z, p)), z, p) ]

InitLog ==
    /\ pc = "tradelog"
    /\ params \in LogParams
    /\ \E n \in 1..MaxRows :
       \E z \in [1..n -> ZValues], c \in [1..n -> Prices] :
         \* the first row has no ewm std, so its z-score is 0
         /\ z[1] = 0
         /\ data = LogFrame(z, c, params)
    /\ input = NoFrame
    /\ input2 = NoFrame
    /\ data2 = NoFrame
    /\ LogInit
    /\ NoGrid
    /\ NoGames

NextLog ==
    \/ TradeEntry
    \/ TradeExit
    \/ TradeSkip
    \/ TradeLogEnd

SpecLog == InitLog /\ [][NextLog]_vars

-----------------------------------------------------------------------------
(* The grid search and the final run, lines 139-189 *)

MaxGridDays == 3

(* lines 139-141: the three parameter lists. The search is drawn with short
   lists: two of values of the script's own lists, and two that hold a window
   pandas rejects and a z_exit that is not below z_entry. *)
Grids ==
    { [windows |-> <<10, 20>>, z_entries |-> <<10, 20>>, z_exits |-> <<3>>],
      [windows |-> <<10>>,     z_entries |-> <<10>>,     z_exits |-> <<3, 7>>],
      [windows |-> <<0, 10>>,  z_entries |-> <<10>>,     z_exits |-> <<3, 10>>],
      [windows |-> <<0>>,      z_entries |-> <<10>>,     z_exits |-> <<3>>] }

DeviationsGrid == {<<-4, 2>>, <<0, 2>>, <<4, 2>>}

(* line 146: itertools.product(windows, z_entries, z_exits), the rightmost list
   running fastest *)
GridPoints(g) ==
    LET nw == Len(g.windows)
        ne == Len(g.z_entries)
        nx == Len(g.z_exits)
    IN  [j \in 1..(nw * ne * nx) |->
            << g.windows[((j - 1) \div (ne * nx)) + 1],
               g.z_entries[(((j - 1) \div nx) % ne) + 1],
               g.z_exits[((j - 1) % nx) + 1] >>]

(* line 148: the arguments of the call at a grid point *)
GridArgs(pt) ==
    [window |-> pt[1], z_entry |-> pt[2], z_exit |-> pt[3],
     dynamic_position |-> FALSE, filter_vol |-> TRUE]

(* line 58: ewm(span=window) raises ValueError unless span >= 1; no other
   statement of backtest_mean_reversion looks at the validity of its arguments *)
Raises(args) == args.window < 1

(* lines 149-158: the row appended for a call that returned *)
RowOf(args, result) ==
    [Window  |-> args.window,
     Z_Entry |-> args.z_entry,
     Z_Exit  |-> args.z_exit,
     Sharpe  |-> result.sharpe,
     WinRate |-> result.win_rate]

(* the handler records a row of zeros for the grid point that failed *)
OnExceptionPlaceholder(res, args) ==
    Append(res, [Window |-> args.window, Z_Entry |-> args.z_entry,
                 Z_Exit |-> args.z_exit, Sharpe |-> SharpeZero,
                 WinRate |-> [num |-> 0, den |-> 1]])

(* lines 159-161: except Exception: print, continue; nothing is appended *)
OnException(res, args) == res

(* break in place of continue: the loop ends at the grid point that failed *)
AfterExceptionBreak(j, total) == total

(* line 161: continue with the next grid point *)
AfterException(j, total) == j + 1

(* the frame the callee writes to is df itself *)
DfAfterCallAliased(df, result) ==
    [c \in DOMAIN df \cup DOMAIN result |->
        IF c \in DOMAIN result THEN result[c] ELSE df[c]]

(* line 57: data = df.copy(); lines 58-102 assign to the columns of the copy,
   so df is after the call what it was before it *)
DfAfterCall(df, result) == df

SharpeLess(a, b) ==
    IF a.sign # b.sign THEN a.sign < b.sign
    ELSE IF a.sign = 1 THEN a.num * b.den < b.num * a.den
    ELSE IF a.sign = -1 THEN a.num * b.den > b.num * a.den
    ELSE FALSE

(* ascending=True: the lower Sharpe first *)
InOrderAscending(a, b) == ~SharpeLess(b.Sharpe, a.Sharpe)

(* lines 172, 175: by='Sharpe', ascending=False: a row may stand before another
   one unless its Sharpe is lower *)
InOrder(a, b) == ~SharpeLess(a.Sharpe, b.Sharpe)

(* lines 172, 175: sort_values(by='Sharpe', ascending=False) with the default
   kind='quicksort', which is not a stable sort: the rows come out in Sharpe
   order, and rows of equal Sharpe in an order the sort does not promise *)
SortValues(res) ==
    LET n == Len(res)
        perms == {f \in [1..n -> 1..n] : \A a, b \in 1..n : a # b => f[a] # f[b]}
    IN  { [j \in 1..n |-> res[f[j]]] :
            f \in {h \in perms : \A a, b \in 1..n :
                                   a < b => InOrder(res[h[a]], res[h[b]])} }

(* line 172: head() keeps the first five rows *)
HeadOf(sorted) == SubSeq(sorted, 1, IF Len(sorted) < 5 THEN Len(sorted) ELSE 5)

(* the final run left on the setting of the search runs *)
FinalArgsDiscrete(row) ==
    [window |-> row.Window, z_entry |-> row.Z_Entry, z_exit |-> row.Z_Exit,
     dynamic_position |-> FALSE, filter_vol |-> TRUE]

(* lines 182-188: int(best.Window), best.Z_Entry, best.Z_Exit,
   dynamic_position=True, filter_vol=True *)
FinalArgs(row) ==
    [window |-> row.Window, z_entry |-> row.Z_Entry, z_exit |-> row.Z_Exit,
     dynamic_position |-> TRUE, filter_vol |-> TRUE]

NoParams == <<>>

ValidWindows(g) == {g.windows[j] : j \in {a \in DOMAIN g.windows : g.windows[a] >= 1}}

InitGrid ==
    /\ pc = "grid"
    /\ grid \in Grids
    /\ \E n \in 1..MaxGridDays :
       \E r \in [1..n -> MarketReturns2] :
         frames \in [ValidWindows(grid) ->
                       { Frame(n, r, dv, [t \in 1..n |-> NaN], NaN) :
                           \* the first row has no ewm std: its deviation is not read
                           dv \in {d \in [1..n -> DeviationsGrid] : d[1] = <<0, 2>>} }]
    /\ GridInit
    /\ params = NoParams
    /\ input = NoFrame
    /\ data = NoFrame
    /\ input2 = NoFrame
    /\ data2 = NoFrame
    /\ LogInit
    /\ NoGames

(* lines 146-158: a grid point whose call returns *)
GridAppend ==
    /\ pc = "grid"
    /\ point < Len(GridPoints(grid))
    /\ LET args == GridArgs(GridPoints(grid)[point + 1])
       IN  /\ ~Raises(args)
           /\ LET result == backtest_mean_reversion(frames[args.window], args)
              IN  /\ results' = Append(results, RowOf(args, result))
                  /\ frames' = [frames EXCEPT ![args.window] = DfAfterCall(@, result)]
           /\ calls' = Append(calls, args)
    /\ point' = point + 1
    /\ UNCHANGED <<pc, input, params, data, run2Vars, gameVars, logVars, grid, top_5, best>>

(* lines 146-148, 159-161: a grid point whose call raises *)
GridExcept ==
    /\ pc = "grid"
    /\ point < Len(GridPoints(grid))
    /\ LET args == GridArgs(GridPoints(grid)[point + 1])
       IN  /\ Raises(args)
           /\ results' = OnException(results, args)
           /\ calls' = Append(calls, args)
    /\ point' = AfterException(point, Len(GridPoints(grid)))
    /\ UNCHANGED <<pc, input, params, data, run2Vars, gameVars, logVars, frames, grid, top_5, best>>

(* lines 163-166: pd.DataFrame([]) has no column 'Return'; the KeyError of
   line 166 is not caught and ends the script *)
NoResults ==
    /\ pc = "grid"
    /\ point >= Len(GridPoints(grid))
    /\ results = <<>>
    /\ pc' = "crashed"
    /\ UNCHANGED <<runVars, run2Vars, gameVars, logVars, gridVars>>

(* lines 163-179: the leaderboard and the best row *)
Rank ==
    /\ pc = "grid"
    /\ point >= Len(GridPoints(grid))
    /\ results # <<>>
    /\ \E sorted \in SortValues(results) :
         /\ top_5' = HeadOf(sorted)
         /\ best' = sorted[1]
    /\ pc' = "final"
    /\ UNCHANGED <<runVars, run2Vars, gameVars, logVars, frames, grid, point, results, calls>>

(* lines 182-189: the final run at the best row; best_df is its frame *)
FinalRun ==
    /\ pc = "final"
    /\ LET args == FinalArgs(best)
           result == backtest_mean_reversion(frames[args.window], args)
       IN  /\ params' = args
           /\ data' = result
           /\ frames' = [frames EXCEPT ![args.window] = DfAfterCall(@, result)]
           /\ calls' = Append(calls, args)
    /\ pc' = "tradelog"
    /\ UNCHANGED <<input, run2Vars, gameVars, logVars, grid, point, results, top_5, best>>

NextGrid ==
    \/ GridAppend
    \/ GridExcept
    \/ NoResults
    \/ Rank
    \/ FinalRun
    \/ TradeEntry
    \/ TradeExit
    \/ TradeSkip
    \/ TradeLogEnd

SpecGrid == InitGrid /\ [][NextGrid]_vars

-----------------------------------------------------------------------------
(* Tetris (src/tetris.py) *)

(* The board is modelled on a smaller screen than the 300 x 600 of lines 8-9:
   a grid of BoardRows rows of BoardCols cells. *)
BoardCols == 6
BoardRows == 4

GRID_SIZE == 30
SCREEN_WIDTH == BoardCols * GRID_SIZE
SCREEN_HEIGHT == BoardRows * GRID_SIZE

MaxShapes == 3

GridCols == SCREEN_WIDTH \div GRID_SIZE
GridRows == SCREEN_HEIGHT \div GRID_SIZE

(* lines 20-28, without the colours *)
SHAPES ==
    << <<<<1, 1, 1>>, <<0, 1, 0>>>>,
       <<<<1, 1, 1, 1>>>>,
       <<<<1, 1>>, <<1, 1>>>>,
       <<<<1, 1, 0>>, <<0, 1, 1>>>>,
       <<<<0, 1, 1>>, <<1, 1, 0>>>>,
       <<<<1, 1, 1>>, <<1, 0, 0>>>>,
       <<<<1, 1, 1>>, <<0, 0, 1>>>> >>

(* line 57: random.choice(SHAPES), drawn here among the T and the O, which fit
   this screen at the spawn column *)
ShapeChoices == {1, 3}

(* line 36 *)
EmptyRow == [x \in 1..GridCols |-> 0]

EmptyGrid == [y \in 1..GridRows |-> EmptyRow]

(* lines 38, 104 *)
SpawnPos == <<0, GridCols \div 2>>

(* lines 87-95; cells of the shape are visited row by row and the test of
   line 93 stops at the first disjunct that holds *)
collides(g, pos, shape) ==
    \E y \in DOMAIN shape : \E x \in DOMAIN shape[y] :
      /\ shape[y][x] # 0
      /\ LET new_x == pos[2] + (x - 1)
             new_y == pos[1] + (y - 1)
         IN  IF new_x < 0 \/ new_x >= GridCols \/ new_y >= GridRows
             THEN TRUE
             ELSE g[new_y + 1][new_x + 1] # 0

(* line 83: the rows reversed, then transposed *)
Rotated(shape) ==
    LET h == Len(shape)
        w == Len(shape[1])
    IN  [r \in 1..w |-> [c \in 1..h |-> shape[h + 1 - c][r]]]

(* lines 98-101 *)
FreezeCells(g, shape, pos) ==
    [y \in DOMAIN g |->
       [x \in DOMAIN g[y] |->
          LET sy == y - pos[1]
              sx == x - pos[2]
          IN  IF sy \in DOMAIN shape /\ sx \in DOMAIN shape[sy] /\ shape[sy][sx] # 0
              THEN shape[sy][sx]
              ELSE g[y][x]]]

AllCells(row) == \A x \in DOMAIN row : row[x] # 0

(* line 107: the indices of the full rows, ascending, counted from 0 *)
RECURSIVE LinesFrom(_, _)
LinesFrom(g, y) ==
    IF y > Len(g) THEN <<>>
    ELSE (IF AllCells(g[y]) THEN <<y - 1>> ELSE <<>>) \o LinesFrom(g, y + 1)

lines_to_clear(g) == LinesFrom(g, 1)

(* lines 109-110: del self.grid[y]; self.grid.insert(0, [0, ...]) *)
DelInsert(g, y) ==
    <<EmptyRow>> \o SubSeq(g, 1, y) \o SubSeq(g, y + 2, Len(g))

(* the full rows taken from the bottom up *)
RECURSIVE ClearLoopBottomUp(_, _)
ClearLoopBottomUp(g, lines) ==
    IF lines = <<>> THEN g
    ELSE ClearLoopBottomUp(DelInsert(g, lines[Len(lines)]),
                           SubSeq(lines, 1, Len(lines) - 1))

(* lines 108-110: for y in lines_to_clear *)
RECURSIVE ClearLoop(_, _)
ClearLoop(g, lines) ==
    IF lines = <<>> THEN g
    ELSE ClearLoop(DelInsert(g, Head(lines)), Tail(lines))

(* lines 106-111 *)
clear_lines(g) == ClearLoop(g, lines_to_clear(g))

(* line 114: the row the shape reaches by falling from pos *)
RECURSIVE DropPos(_, _, _)
DropPos(g, pos, shape) ==
    IF collides(g, <<pos[1] + 1, pos[2]>>, shape) THEN pos
    ELSE DropPos(g, <<pos[1] + 1, pos[2]>>, shape)

(* lines 33-44 with no highscore file: the first shape is drawn before
   game_over is set to False *)
InitTetris ==
    /\ tetris_grid = EmptyGrid
    /\ \E c \in ShapeChoices : current_shape = SHAPES[c]
    /\ shape_pos = SpawnPos
    /\ score = 1
    /\ highscore = 1
    /\ game_over = FALSE
    /\ running = TRUE
    /\ shapes = 1
    /\ pc = "tetris"
    /\ input = NoFrame
    /\ params = NoParams
    /\ data = NoFrame
    /\ input2 = NoFrame
    /\ data2 = NoFrame
    /\ LogInit
    /\ NoGrid
    /\ NoSort

(* lines 168-173: the end of a frame *)
EndOfFrame(over, sc) ==
    /\ running' = ~over
    /\ highscore' = IF over /\ sc > highscore THEN sc ELSE highscore

(* lines 77-80 *)
move_shape(dx, dy) ==
    LET new_pos == <<shape_pos[1] + dy, shape_pos[2] + dx>>
    IN  shape_pos' = IF collides(tetris_grid, new_pos, current_shape)
                     THEN shape_pos ELSE new_pos

(* lines 142-143 *)
MoveLeft ==
    /\ running
    /\ shapes <= MaxShapes
    /\ move_shape(-1, 0)
    /\ UNCHANGED <<scriptVars, sortVars, tetris_grid, current_shape, score, highscore,
                   game_over, running, shapes>>

(* lines 144-145 *)
MoveRight ==
    /\ running
    /\ shapes <= MaxShapes
    /\ move_shape(1, 0)
    /\ UNCHANGED <<scriptVars, sortVars, tetris_grid, current_shape, score, highscore,
                   game_over, running, shapes>>

(* lines 146-147 *)
MoveDown ==
    /\ running
    /\ shapes <= MaxShapes
    /\ move_shape(0, 1)
    /\ UNCHANGED <<scriptVars, sortVars, tetris_grid, current_shape, score, highscore,
                   game_over, running, shapes>>

(* lines 82-85, on the up key (lines 148-149) *)
rotate_shape ==
    /\ running
    /\ shapes <= MaxShapes
    /\ current_shape' = IF collides(tetris_grid, shape_pos, Rotated(current_shape))
                        THEN current_shape ELSE Rotated(current_shape)
    /\ UNCHANGED <<scriptVars, sortVars, tetris_grid, shape_pos, score, highscore,
                   game_over, running, shapes>>

(* lines 97-104, 56-60: the shape is written at pos, full rows are cleared, and
   a new shape is drawn at the spawn position *)
freeze_shape(pos) ==
    LET frozen == FreezeCells(tetris_grid, current_shape, pos)
    IN  /\ tetris_grid' = clear_lines(frozen)
        /\ score' = score * Pow(2, Len(lines_to_clear(frozen)))
        /\ \E c \in ShapeChoices :
             /\ current_shape' = SHAPES[c]
             /\ game_over' = (game_over \/ collides(tetris_grid', SpawnPos, SHAPES[c]))
        /\ shape_pos' = SpawnPos
        /\ shapes' = shapes + 1

(* lines 113-116, on the space key (lines 150-151) *)
drop_shape ==
    /\ running
    /\ shapes <= MaxShapes
    /\ freeze_shape(DropPos(tetris_grid, shape_pos, current_shape))
    /\ UNCHANGED <<scriptVars, sortVars, highscore, running>>

(* lines 153-157, 168-173: the shape falls by one row *)
GravityFall ==
    /\ running
    /\ shapes <= MaxShapes
    /\ ~collides(tetris_grid, <<shape_pos[1] + 1, shape_pos[2]>>, current_shape)
    /\ shape_pos' = <<shape_pos[1] + 1, shape_pos[2]>>
    /\ EndOfFrame(game_over, score)
    /\ UNCHANGED <<scriptVars, sortVars, tetris_grid, current_shape, score, game_over,
                   shapes>>

(* lines 153-159, 168-173: the shape cannot fall and is frozen *)
GravityFreeze ==
    /\ running
    /\ shapes <= MaxShapes
    /\ collides(tetris_grid, <<shape_pos[1] + 1, shape_pos[2]>>, current_shape)
    /\ freeze_shape(shape_pos)
    /\ EndOfFrame(game_over', score')
    /\ UNCHANGED <<scriptVars, sortVars>>

(* lines 153-154, 168-173: a frame without a gravity step after the game is over *)
GameOverFrame ==
    /\ running
    /\ game_over
    /\ EndOfFrame(game_over, score)
    /\ UNCHANGED <<scriptVars, sortVars, tetris_grid, current_shape, shape_pos, score,
                   game_over, shapes>>

(* the QUIT event of lines 139-140, which only ends the loop, is left out *)
NextTetris ==
    \/ MoveLeft
    \/ MoveRight
    \/ MoveDown
    \/ rotate_shape
    \/ drop_shape
    \/ GravityFall
    \/ GravityFreeze
    \/ GameOverFrame

SpecTetris == InitTetris /\ [][NextTetris]_vars

-----------------------------------------------------------------------------
(* The sorting visualiser (src/sortingalgoviualised.py) *)

(* A colour is modelled by its hue, the component the sorts compare; the lists
   range over every list of up to MaxLen hues, the samples without repetition
   that lines 21-22 draw among them. *)
MaxLen == 3
MaxHue == 2

Hues == 0..MaxHue

Lists == UNION {[1..n -> Hues] : n \in 0..MaxLen}

SortKinds == {"bubble", "insertion", "selection", "merge"}

(* A generator is a record: its kind, the yield at which it is suspended ("start"
   before the first next) and the locals of its frame. Indices count from 0 as
   in the code; colors[k + 1] is the code's colors[k]. What a next() does is a
   record [gen, colors, done]: the generator and the list at the next yield, or
   done when the body ends (StopIteration). *)
Yielded(gen, colors) == [gen |-> gen, colors |-> colors, done |-> FALSE]

Exhausted(colors) == [gen |-> NoSorter, colors |-> colors, done |-> TRUE]

(* lines 96, 119 *)
Swap(colors, a, b) ==
    [colors EXCEPT ![a + 1] = colors[b + 1], ![b + 1] = colors[a + 1]]

(* the inner loop one short: range(n - i - 2) *)
RECURSIVE BubbleSeekShort(_, _, _)
BubbleSeekShort(colors, i_, j) ==
    LET n == Len(colors)
    IN  IF i_ >= n THEN Exhausted(colors)
        ELSE IF j < n - i_ - 2
             THEN Yielded([kind |-> "bubble", at |-> "94", i |-> i_, j |-> j], colors)
             ELSE BubbleSeekShort(colors, i_ + 1, 0)

(* lines 92-94: the loops run on to the next yield *)
RECURSIVE BubbleSeek(_, _, _)
BubbleSeek(colors, i_, j) ==
    LET n == Len(colors)
    IN  IF i_ >= n THEN Exhausted(colors)
        ELSE IF j < n - i_ - 1
             THEN Yielded([kind |-> "bubble", at |-> "94", i |-> i_, j |-> j], colors)
             ELSE BubbleSeek(colors, i_ + 1, 0)

(* lines 90-97 *)
bubble_sort(gen, colors) ==
    IF gen.at = "start" THEN BubbleSeek(colors, 0, 0)
    ELSE LET j == gen.j
             swapped == IF colors[j + 1] > colors[j + 2]
                        THEN Swap(colors, j, j + 1) ELSE colors
         IN  BubbleSeek(swapped, gen.i, j + 1)

(* lines 103-109 *)
InsertionWhile(colors, i_, j, key) ==
    IF j >= 0 /\ colors[j + 1] > key
    THEN Yielded([kind |-> "insertion", at |-> "104", i |-> i_, j |-> j, key |-> key],
                 colors)
    ELSE Yielded([kind |-> "insertion", at |-> "109", i |-> i_],
                 [colors EXCEPT ![j + 2] = key])

(* lines 100-102 *)
InsertionFor(colors, i_) ==
    IF i_ >= Len(colors) THEN Exhausted(colors)
    ELSE InsertionWhile(colors, i_, i_ - 1, colors[i_ + 1])

(* lines 99-109 *)
insertion_sort(gen, colors) ==
    IF gen.at = "start" THEN InsertionFor(colors, 1)
    ELSE IF gen.at = "104"
         THEN InsertionWhile([colors EXCEPT ![gen.j + 2] = colors[gen.j + 1]],
                             gen.i, gen.j - 1, gen.key)
         ELSE InsertionFor(colors, gen.i + 1)

(* lines 115-121 *)
SelectionInner(colors, i_, min_idx, j) ==
    IF j < Len(colors)
    THEN Yielded([kind |-> "selection", at |-> "116", i |-> i_, min_idx |-> min_idx,
                  j |-> j], colors)
    ELSE Yielded([kind |-> "selection", at |-> "121", i |-> i_],
                 Swap(colors, i_, min_idx))

(* lines 113-114 *)
SelectionFor(colors, i_) ==
    IF i_ >= Len(colors) THEN Exhausted(colors)
    ELSE SelectionInner(colors, i_, i_, i_ + 1)

(* lines 111-121 *)
selection_sort(gen, colors) ==
    IF gen.at = "start" THEN SelectionFor(colors, 0)
    ELSE IF gen.at = "116"
         THEN SelectionInner(colors, gen.i,
                             IF colors[gen.j + 1] < colors[gen.min_idx + 1]
                             THEN gen.j ELSE gen.min_idx,
                             gen.j + 1)
         ELSE SelectionFor(colors, gen.i + 1)

(* merge_sort calls itself: the generator holds a stack of frames, the innermost
   last. A frame below the top waits in its first or its second yield from. *)
MergeFrame(start, mid, end, at, i_, j, merged) ==
    [start |-> start, mid |-> mid, end |-> end, at |-> at, i |-> i_, j |-> j,
     merged |-> merged]

MergeGen(stack) == [kind |-> "merge", at |-> "yield", stack |-> stack]

Top(stack) == stack[Len(stack)]

Below(stack) == SubSeq(stack, 1, Len(stack) - 1)

RECURSIVE MergeCall(_, _, _, _)
RECURSIVE MergeReturn(_, _)
RECURSIVE MergeWrite(_, _, _, _)

(* lines 147-149: the k-th value of merged is written back, then yielded *)
MergeWrite(stack, colors, merged, k) ==
    LET f == Top(stack)
    IN  IF k < Len(merged)
        THEN Yielded(MergeGen(Below(stack) \o
                              <<MergeFrame(f.start, f.mid, f.end, "149", k, f.j, merged)>>),
                     [colors EXCEPT ![f.start + k + 1] = merged[k + 1]])
        ELSE MergeReturn(Below(stack), colors)

(* lines 132-133, 141-146 *)
MergeWhile(stack, colors, i_, j, merged) ==
    LET f == Top(stack)
    IN  IF i_ < f.mid /\ j < f.end
        THEN Yielded(MergeGen(Below(stack) \o
                              <<MergeFrame(f.start, f.mid, f.end, "133", i_, j, merged)>>),
                     colors)
        ELSE MergeWrite(stack, colors,
                        merged \o SubSeq(colors, i_ + 1, f.mid) \o SubSeq(colors, j + 1, f.end),
                        0)

(* the call below the top of the stack has returned: lines 129-131, or the end
   of the outermost call *)
MergeReturn(stack, colors) ==
    IF stack = <<>> THEN Exhausted(colors)
    ELSE LET f == Top(stack)
         IN  IF f.at = "128"
             THEN MergeCall(Below(stack) \o
                            <<MergeFrame(f.start, f.mid, f.end, "129", 0, 0, <<>>)>>,
                            colors, f.mid, f.end)
             ELSE MergeWhile(stack, colors, f.start, f.mid, <<>>)

(* lines 123-128 *)
MergeCall(stack, colors, start, end) ==
    IF end - start > 1
    THEN LET mid == (start + end) \div 2
         IN  MergeCall(stack \o <<MergeFrame(start, mid, end, "128", 0, 0, <<>>)>>,
                       colors, start, mid)
    ELSE MergeReturn(stack, colors)

(* lines 123-149 *)
merge_sort(gen, colors) ==
    IF gen.at = "start" THEN MergeCall(<<>>, colors, 0, Len(colors))
    ELSE LET f == Top(gen.stack)
         IN  IF f.at = "133"
             THEN IF colors[f.i + 1] < colors[f.j + 1]
                  THEN MergeWhile(gen.stack, colors, f.i + 1, f.j,
                                  Append(f.merged, colors[f.i + 1]))
                  ELSE MergeWhile(gen.stack, colors, f.i, f.j + 1,
                                  Append(f.merged, colors[f.j + 1]))
             ELSE MergeWrite(gen.stack, colors, f.merged, f.i + 1)

(* line 263: next(sorter) *)
NextOf(gen, colors) ==
    IF gen.kind = "bubble" THEN bubble_sort(gen, colors)
    ELSE IF gen.kind = "insertion" THEN insertion_sort(gen, colors)
    ELSE IF gen.kind = "selection" THEN selection_sort(gen, colors)
    ELSE merge_sort(gen, colors)

(* lines 207-212; the keys that select a sort and reshuffle (lines 237-256) lead
   to these states again *)
InitSort ==
    /\ colors_hsv \in Lists
    /\ shuffled = colors_hsv
    /\ selected_sort \in SortKinds
    /\ sorting = FALSE
    /\ sorter = NoSorter
    /\ pc = "sort"
    /\ input = NoFrame
    /\ params = NoParams
    /\ data = NoFrame
    /\ input2 = NoFrame
    /\ data2 = NoFrame
    /\ LogInit
    /\ NoGrid
    /\ NoTetris

(* lines 223-232: the space key creates the generator; its body has not run *)
StartSort ==
    /\ pc = "sort"
    /\ ~sorting
    /\ sorting' = TRUE
    /\ sorter' = [kind |-> selected_sort, at |-> "start"]
    /\ shuffled' = colors_hsv
    /\ UNCHANGED <<scriptVars, tetrisVars, colors_hsv, selected_sort>>

(* lines 261-264: next(sorter) reaches a yield *)
StepSort ==
    /\ sorting
    /\ sorter # NoSorter
    /\ LET r == NextOf(sorter, colors_hsv)
       IN  /\ ~r.done
           /\ sorter' = r.gen
           /\ colors_hsv' = r.colors
    /\ UNCHANGED <<scriptVars, tetrisVars, shuffled, selected_sort, sorting>>

(* lines 261-267: next(sorter) raises StopIteration *)
StopSort ==
    /\ sorting
    /\ sorter # NoSorter
    /\ LET r == NextOf(sorter, colors_hsv)
       IN  /\ r.done
           /\ colors_hsv' = r.colors
    /\ sorter' = NoSorter
    /\ sorting' = FALSE
    /\ UNCHANGED <<scriptVars, tetrisVars, shuffled, selected_sort>>

NextSort ==
    \/ StartSort
    \/ StepSort
    \/ StopSort

(* the loop of line 215 calls next(sorter) in every frame while sorting *)
SpecSort ==
    /\ InitSort
    /\ [][NextSort]_vars
    /\ WF_vars(StepSort)
    /\ WF_vars(StopSort)

-----------------------------------------------------------------------------
(* Properties of backtest_mean_reversion *)

Returned == pc # "call"

Rows == DOMAIN data.position

Before(col, t) == IF t = 1 THEN 0 ELSE col[t - 1]

(* C1: the position acting on day t's return is the one decided on day t-1:
   position_lag is 0 on the first day and position[t-1] afterwards, and
   strategy_raw[t] = position_lag[t] * returns[t] on every day *)
C1_LaggedPosition ==
    Returned =>
        \A t \in Rows :
            /\ data.position_lag[t] = Before(data.position, t)
            /\ data.strategy_raw[t] = data.position_lag[t] * data.returns[t]

(* a day that earns on yesterday's position while today's position differs *)
C1_Witness ==
    /\ Returned
    /\ \E t \in Rows :
        /\ t > 1
        /\ data.position[t - 1] # 0
        /\ data.position[t] # data.position[t - 1]
        /\ data.strategy_raw[t] = data.position[t - 1] * data.returns[t]
        /\ data.strategy_raw[t] # data.position[t] * data.returns[t]

AgreeTo(colA, colB, t) == \A k \in 1..t : colA[k] = colB[k]

BothReturned == pc = "done" /\ data # NoFrame /\ data2 # NoFrame

(* C2, as stated: two runs that agree on returns[0..t] and on position[0..t-1]
   have the same equity[t] *)
C2_EquityFromEarlierPositions ==
    BothReturned =>
        \A t \in Rows :
            ( /\ AgreeTo(data.returns, data2.returns, t)
              /\ AgreeTo(data.position, data2.position, t - 1) )
            => data.equity_curve[t] = data2.equity_curve[t]

(* C2, amended: two runs that agree on returns[0..t] and on position[0..t]
   have the same equity[t], whatever the later returns and positions are *)
C2_EquityFromPrefix ==
    BothReturned =>
        \A t \in Rows :
            ( /\ AgreeTo(data.returns, data2.returns, t)
              /\ AgreeTo(data.position, data2.position, t) )
            => data.equity_curve[t] = data2.equity_curve[t]

(* two runs with the same traded prefix and different final equity *)
C2_Witness ==
    /\ BothReturned
    /\ \E t \in Rows :
        /\ t < Len(data.position)
        /\ AgreeTo(data.returns, data2.returns, t)
        /\ AgreeTo(data.position, data2.position, t)
        /\ data.strategy_net[t] # 0
        /\ data.equity_curve[t] = data2.equity_curve[t]
        /\ data.equity_curve[Len(data.position)] # data2.equity_curve[Len(data.position)]

Discrete == Returned /\ ~params.dynamic_position

(* C3: with dynamic_position=False, on every day with |z_score| < z_exit the
   position is 0, even if a position was held the day before *)
C3_ExitRule ==
    Discrete =>
        \A t \in Rows : Abs(data.z_score[t]) < params.z_exit => data.position[t] = 0

(* C4: with dynamic_position=False, z_score < -z_entry gives position +1 and
   z_score > +z_entry gives position -1, whatever was held before *)
C4_EntryRule ==
    Discrete =>
        \A t \in Rows :
            /\ data.z_score[t] < -params.z_entry => data.position[t] = PosScale
            /\ data.z_score[t] > params.z_entry => data.position[t] = -PosScale

(* a long position turned short by a z-score above the band *)
C4_Witness ==
    /\ Discrete
    /\ \E t \in Rows :
        /\ t > 1
        /\ data.position[t - 1] = PosScale
        /\ data.z_score[t] > params.z_entry
        /\ data.position[t] = -PosScale

Triggers(z, p) == z < -p.z_entry \/ z > p.z_entry \/ Abs(z) < p.z_exit

(* C5: with dynamic_position=False the accumulator starts at 0, a day with
   z_exit <= |z_score| <= z_entry keeps the position of the day before, and
   the position changes only on a day that triggers a rule *)
C5_HoldRule ==
    Discrete =>
        \A t \in Rows :
            /\ ~Triggers(data.z_score[t], params)
                    => data.position[t] = Before(data.position, t)
            /\ data.position[t] # Before(data.position, t)
                    => Triggers(data.z_score[t], params)

(* a held position carried over a day between the bands *)
C5_Witness ==
    /\ Discrete
    /\ \E t \in Rows :
        /\ t > 1
        /\ ~Triggers(data.z_score[t], params)
        /\ data.z_score[t] # 0
        /\ data.signal[t] = 0
        /\ data.position[t - 1] # 0
        /\ data.position[t] = data.position[t - 1]

(* C6: trade_cost[t] = cost_per_trade * |position[t] - position[t-1]|, the
   position before the first day taken as 0, and
   strategy_net[t] = strategy_clipped[t] - trade_cost[t] *)
C6_TradeCost ==
    Returned =>
        \A t \in Rows :
            /\ data.trade_cost[t]
                 = cost_per_trade * Abs(data.position[t] - Before(data.position, t))
            /\ data.strategy_net[t] = data.strategy_clipped[t] - data.trade_cost[t]

(* a cost charged on a change of size that keeps the side *)
C6_Witness ==
    /\ Returned
    /\ params.dynamic_position
    /\ \E t \in Rows :
        /\ t > 1
        /\ Sign(data.position[t]) = Sign(data.position[t - 1])
        /\ data.position[t] # 0
        /\ data.position[t] # data.position[t - 1]
        /\ data.trade_cost[t] > 0
        /\ data.strategy_net[t] = data.strategy_clipped[t] - data.trade_cost[t]

(* the position path 0 -> 1 -> 0 ending on day t + 1, with market returns
   0.02 and -0.01 on its last two days and neither of them clipped *)
CostExample(t) ==
    /\ t > 1
    /\ t + 1 \in Rows
    /\ data.position[t - 1] = 0
    /\ data.position[t] = PosScale
    /\ data.position[t + 1] = 0
    /\ data.returns[t] = 20
    /\ data.returns[t + 1] = -10
    /\ data.strategy_clipped[t] = data.strategy_raw[t]
    /\ data.strategy_clipped[t + 1] = data.strategy_raw[t + 1]

(* C7, as stated: on the cost example net_return is [0.019, -0.011] *)
C7_CostExampleStated ==
    Returned =>
        \A t \in Rows :
            CostExample(t) =>
                /\ data.strategy_net[t] * 1000 = 19 * NetScale
                /\ data.strategy_net[t + 1] * 1000 = -11 * NetScale

(* C7, amended: on the cost example net_return is [-0.001, -0.011]: the entry
   day pays the cost and earns nothing, the exit day earns the return on the
   lagged position and pays the cost *)
C7_CostExample ==
    Returned =>
        \A t \in Rows :
            CostExample(t) =>
                /\ data.strategy_net[t] * 1000 = -1 * NetScale
                /\ data.strategy_net[t + 1] * 1000 = -11 * NetScale

(* the cost example has been run *)
C7_Witness == Returned /\ \E t \in Rows : CostExample(t)

-----------------------------------------------------------------------------
(* Properties of the trade log *)

LogRunning == pc = "tradelog" \/ (pc = "done" /\ params.dynamic_position)

LogDone == pc = "done" /\ params.dynamic_position

LastRow == Len(data.position)

SideOf(x) == IF x > 0 THEN "Long" ELSE "Short"

(* row x reverses the side held on row x - 1 *)
Reversal(x) ==
    /\ x > 1
    /\ data.position[x] # 0
    /\ data.position[x - 1] # 0
    /\ Sign(data.position[x]) # Sign(data.position[x - 1])

(* row x closes the position held on row x - 1 *)
Closing(x) ==
    /\ x > 1
    /\ data.position[x - 1] # 0
    /\ (data.position[x] = 0 \/ Sign(data.position[x]) # Sign(data.position[x - 1]))

RowOfDate(d) == CHOOSE x \in Rows : data.index[x] = d

(* C8: a reversal row closes the open Trade at that row's date and close and
   opens the opposite one at the same date and price; in the ledger the Trade
   after one closed by a reversal enters at its exit date and exit price *)
C8_Reversal ==
    LogRunning =>
        /\ (i >= 1 /\ Reversal(i)) =>
                /\ trades # <<>>
                /\ trades[Len(trades)].Exit_Date = data.index[i]
                /\ trades[Len(trades)].Exit = data.Close[i]
                /\ trades[Len(trades)].Type = SideOf(data.position[i - 1])
                /\ in_position
                /\ entry_date = data.index[i]
                /\ entry_price = data.Close[i]
                /\ position_type = SideOf(data.position[i])
        /\ \A k \in 1..(Len(trades) - 1) :
                Reversal(RowOfDate(trades[k].Exit_Date)) =>
                    /\ trades[k + 1].Entry_Date = trades[k].Exit_Date
                    /\ trades[k + 1].Entry = trades[k].Exit
                    /\ trades[k + 1].Type # trades[k].Type

(* a ledger with the two Trades of a reversal *)
C8_Witness ==
    /\ LogDone
    /\ Len(trades_df) >= 2
    /\ Reversal(RowOfDate(trades_df[1].Exit_Date))
    /\ trades_df[2].Entry_Date = trades_df[1].Exit_Date
    /\ trades_df[2].Entry = trades_df[1].Exit
    /\ trades_df[1].Type = "Long"
    /\ trades_df[2].Type = "Short"

(* the first row of the run of one side that reaches the last row *)
TrailStart ==
    CHOOSE s \in Rows :
        /\ \A k \in s..LastRow : Sign(data.position[k]) = Sign(data.position[LastRow])
        /\ (s = 1 \/ Sign(data.position[s - 1]) # Sign(data.position[LastRow]))

(* C9: the ledger holds exactly one Trade per closing row of the series, each
   exiting on its closing row, and a position still open on the last row yields
   no Trade: it stays open in the loop's state, entered where its run began *)
C9_NoTrailingTrade ==
    LogDone =>
        /\ trades_df = trades
        /\ \A k \in 1..Len(trades_df) : Closing(RowOfDate(trades_df[k].Exit_Date))
        /\ Len(trades_df) = Cardinality({ x \in Rows : Closing(x) })
        /\ data.position[LastRow] # 0 =>
                /\ in_position
                /\ entry_date = data.index[TrailStart]
                /\ \A k \in 1..Len(trades_df) :
                        trades_df[k].Entry_Date < data.index[TrailStart]

(* an earlier Trade is in the ledger and a position held for more than one row
   is open on the last row *)
C9_Witness ==
    /\ LogDone
    /\ trades_df # <<>>
    /\ data.position[LastRow] # 0
    /\ TrailStart < LastRow
    /\ data.position[LastRow] # data.position[LastRow - 1]

(* the first rows of the maximal runs of one non-zero side *)
RunStarts ==
    { s \in Rows :
        /\ data.position[s] # 0
        /\ (s = 1 \/ Sign(data.position[s - 1]) # Sign(data.position[s])) }

RunEnd(s) ==
    CHOOSE e \in s..LastRow :
        /\ \A k \in s..e : Sign(data.position[k]) = Sign(data.position[s])
        /\ (e = LastRow \/ Sign(data.position[e + 1]) # Sign(data.position[s]))

(* the runs followed by a further observation, and the k-th of them *)
ClosedRuns == { s \in RunStarts : RunEnd(s) < LastRow }

KthRun(k) == CHOOSE s \in ClosedRuns : Cardinality({ u \in ClosedRuns : u < s }) = k - 1

(* C10: the Trades are, in order, the maximal runs of one non-zero side that
   are followed by a further row: entry at the run's first row, side Long iff
   the run is positive, exit at the first row after the run; an all-zero
   position column gives no Trade *)
C10_TradesAreRuns ==
    LogDone =>
        /\ Len(trades_df) = Cardinality(ClosedRuns)
        /\ \A k \in 1..Len(trades_df) :
            LET s == KthRun(k)
                x == RunEnd(s) + 1
                tr == trades_df[k]
            IN  /\ tr.Entry_Date = data.index[s]
                /\ tr.Entry = data.Close[s]
                /\ tr.Type = SideOf(data.position[s])
                /\ tr.Exit_Date = data.index[x]
                /\ tr.Exit = data.Close[x]
        /\ (\A t \in Rows : data.position[t] = 0) => trades_df = <<>>

(* a long run closed by a reversal and the short run after it closed by going
   flat on the last row *)
C10_Witness ==
    /\ LogDone
    /\ Len(trades_df) = 2
    /\ trades_df[1].Type = "Long"
    /\ trades_df[2].Type = "Short"
    /\ data.position[LastRow] = 0
    /\ trades_df[1].Entry # trades_df[1].Exit

-----------------------------------------------------------------------------
(* Properties of the metrics and of the z-score and sizing steps *)

WinningDays == {t \in Rows : data.strategy_net[t] > 0}

LosingDays == {t \in Rows : data.strategy_net[t] < 0}

FlatDays == {t \in Rows : data.strategy_net[t] = 0}

(* C17: win_rate is winning days over winning plus losing days, in percent: a
   day whose net return is exactly 0 is in neither count, the rate is 0 when
   there is no winning and no losing day, and the net returns
   [0.01, 0.0, -0.01] give 50, not 33. *)
C17_WinRate ==
    /\ Returned =>
         LET W == Cardinality(WinningDays)
             L == Cardinality(LosingDays)
         IN  /\ W + L = 0 => data.win_rate.num = 0
             /\ W + L > 0 => data.win_rate.num * (W + L) = 100 * W * data.win_rate.den
    /\ LET example == WinRateOf(<<NetScale \div 100, 0, -(NetScale \div 100)>>)
       IN  example.num = 50 * example.den

(* a run with a winning day, a losing day and a flat day: the rate is 50 *)
C17_Witness ==
    /\ Returned
    /\ Cardinality(WinningDays) = 1
    /\ Cardinality(LosingDays) = 1
    /\ Cardinality(FlatDays) = 1
    /\ data.win_rate.num = 50 * data.win_rate.den

(* C18: on a day whose rolling standard deviation is 0 the z-score is 0 and no
   position is opened: if the position of the previous day is flat, the
   position of that day is flat too. *)
C18_NoDispersion ==
    Returned =>
      \A t \in Rows :
        input.std[t] = 0 =>
          /\ data.z_score[t] = 0
          /\ Before(data.position, t) = 0 => data.position[t] = 0

(* a flat day without dispersion in a run that opens a position on another day *)
C18_Witness ==
    /\ Returned
    /\ \E t \in Rows :
         /\ input.std[t] = 0
         /\ Before(data.position, t) = 0
         /\ data.position[t] = 0
    /\ \E u \in Rows : data.position[u] # 0

(* C19: with dynamic sizing the position of day t has the sign of the held
   position and the size |clamp(-z[t] / z_entry, -1, 1)| = min(|z[t]| / z_entry, 1);
   it is 0 on every day the held position is flat, whatever the z-score. *)
C19_DynamicSize ==
    (Returned /\ params.dynamic_position) =>
      \A t \in Rows :
        LET z    == data.z_score[t]
            size == IF Abs(z) > params.z_entry THEN params.z_entry ELSE Abs(z)
        IN  /\ data.held[t] = 0 => data.position[t] = 0
            /\ data.held[t] # 0 =>
                 /\ Abs(data.position[t]) * params.z_entry = PosScale * size
                 /\ data.position[t] * data.held[t] >= 0

(* a flat day whose z-score is as large as the entry band, sized to 0, in a
   run that also holds a position *)
C19_Witness ==
    /\ Returned
    /\ params.dynamic_position
    /\ \E t \in Rows :
         /\ data.held[t] = 0
         /\ Abs(data.z_score[t]) >= params.z_entry
         /\ data.position[t] = 0

-----------------------------------------------------------------------------
(* Properties of the grid search and of the final run *)

Points == GridPoints(grid)

PointOf(row) == <<row.Window, row.Z_Entry, row.Z_Exit>>

GridIndex(row) == CHOOSE j \in DOMAIN Points : Points[j] = PointOf(row)

SameSharpe(a, b) == ~SharpeLess(a.Sharpe, b.Sharpe) /\ ~SharpeLess(b.Sharpe, a.Sharpe)

Ranked == pc \in {"final", "tradelog", "done"}

FinalDone == pc \in {"tradelog", "done"}

(* C11: the ranking is deterministic: among results of equal Sharpe the one
   seen first in the enumeration order of the grid ranks first, in the
   leaderboard and in the choice of the best row. *)
C11_FirstSeenFirst ==
    Ranked =>
      /\ \A a, b \in DOMAIN top_5 :
           (a < b /\ SameSharpe(top_5[a], top_5[b]))
             => GridIndex(top_5[a]) < GridIndex(top_5[b])
      /\ \A j \in DOMAIN results :
           SameSharpe(results[j], best) => GridIndex(best) <= GridIndex(results[j])

(* C12: the leaderboard is in descending order of Sharpe and the best row is
   its first row, a collected row whose Sharpe is not below the Sharpe of any
   other collected row. *)
C12_BestIsArgmax ==
    Ranked =>
      /\ \A a, b \in DOMAIN top_5 :
           a < b => ~SharpeLess(top_5[a].Sharpe, top_5[b].Sharpe)
      /\ best = top_5[1]
      /\ \E j \in DOMAIN results : results[j] = best
      /\ \A j \in DOMAIN results : ~SharpeLess(best.Sharpe, results[j].Sharpe)

(* the best row is not the first collected row and beats another row strictly *)
C12_Witness ==
    /\ Ranked
    /\ results[1] # best
    /\ SharpeLess(results[1].Sharpe, best.Sharpe)
    /\ \E j \in DOMAIN results : results[j].Sharpe.sign = -1

(* C13: every call of the search runs with dynamic_position off and the
   volatility filter on; after the search there is exactly one more call, at
   the parameters of the best row with dynamic_position on, and the frame the
   statistics and the trade log read is the frame of that call. *)
C13_TwoPhase ==
    /\ \A j \in DOMAIN calls :
         (j < Len(calls) \/ ~FinalDone)
           => (~calls[j].dynamic_position /\ calls[j].filter_vol)
    /\ FinalDone =>
         LET last == calls[Len(calls)]
         IN  /\ Len(calls) = point + 1
             /\ last = [window |-> best.Window, z_entry |-> best.Z_Entry,
                        z_exit |-> best.Z_Exit, dynamic_position |-> TRUE,
                        filter_vol |-> TRUE]
             /\ params = last
             /\ data = backtest_mean_reversion(frames[best.Window], last)
             /\ \A j \in DOMAIN trades_df :
                  \E e, x \in Rows :
                    /\ e < x
                    /\ trades_df[j].Entry_Date = data.index[e]
                    /\ trades_df[j].Exit_Date = data.index[x]
                    /\ trades_df[j].Entry = data.Close[e]
                    /\ trades_df[j].Type = TypeOf(data.position[e])
                    /\ data.position[e] # 0

(* a finished script with a trade, whose final position column is not the one
   the search run at the best parameters had *)
C13_Witness ==
    /\ pc = "done"
    /\ trades_df # <<>>
    /\ data.position #
         backtest_mean_reversion(frames[best.Window], GridArgs(PointOf(best))).position

(* C14: a call with window <= 0, z_entry <= 0 or z_exit >= z_entry fails and
   produces no result. *)
C14_InvalidParamsFail ==
    \A j \in DOMAIN results :
      /\ results[j].Window > 0
      /\ results[j].Z_Entry > 0
      /\ results[j].Z_Exit < results[j].Z_Entry

Returns(pt) == ~Raises(GridArgs(pt))

(* C15: a grid point whose call fails is skipped and does not end the sweep:
   the loop goes on to every later grid point, and the collected rows are, in
   order, one row for each grid point taken so far whose call returned. *)
C15_FailedPointSkipped ==
    /\ point <= Len(Points)
    /\ pc # "grid" => point = Len(Points)
    /\ LET returned == SelectSeq(SubSeq(Points, 1, point), Returns)
       IN  /\ Len(results) = Len(returned)
           /\ \A j \in DOMAIN results : PointOf(results[j]) = returned[j]

(* the loop is over, a grid point failed, and a later one has its row *)
C15_Witness ==
    /\ pc # "grid"
    /\ point = Len(Points)
    /\ \E a, b \in DOMAIN Points : a < b /\ ~Returns(Points[a]) /\ Returns(Points[b])
    /\ results # <<>>
    /\ Len(results) < Len(Points)

AllFail == \A j \in DOMAIN Points : ~Returns(Points[j])

(* C16: when the call fails at every grid point, so that no result is
   collected, the script ends in an error after the loop: no best row is
   selected, no default takes its place, and the final run and the trade log
   are not executed. *)
C16_NoValidConfiguration ==
    /\ (pc # "grid" /\ results = <<>>) => pc = "crashed"
    /\ AllFail =>
      /\ pc \in {"grid", "crashed"}
      /\ pc = "crashed" => point = Len(Points)
      /\ best = NoBest
      /\ top_5 = <<>>
      /\ data = NoFrame
      /\ \A j \in DOMAIN calls : ~calls[j].dynamic_position
      /\ i = 0
      /\ trades = <<>>
      /\ trades_df = <<>>

(* the script has ended in the error after a sweep in which every call failed *)
C16_Witness ==
    /\ AllFail
    /\ pc = "crashed"
    /\ Len(calls) = Len(Points)
    /\ results = <<>>

(* the last collected row is the row of a call on df at its grid point *)
LastRowFresh(res, df) ==
    LET row  == res[Len(res)]
        args == GridArgs(PointOf(row))
    IN  Returns(PointOf(row)) =>
          row = RowOf(args, backtest_mean_reversion(df[row.Window], args))

(* C20: every step of the script, each call of backtest_mean_reversion
   included, leaves df as it was, and the rows already collected too; so the
   row a call adds is the row a call on the original df gives at that grid
   point, whichever and however many calls came before it. (The cost
   configuration is a set of constants of the module, which no step assigns.) *)
C20_CallLeavesDf ==
    [][ /\ frames' = frames
        /\ results' # results =>
             /\ SubSeq(results', 1, Len(results)) = results
             /\ Len(results') = Len(results) + 1
             /\ LastRowFresh(results', frames) ]_vars

(* the search has called twice on the frame of one window *)
C20_Witness ==
    /\ pc = "grid"
    /\ \E a, b \in DOMAIN results :
         /\ a < b
         /\ results[a].Window = results[b].Window
         /\ results[a].Sharpe # results[b].Sharpe

-----------------------------------------------------------------------------
(* Properties of the return steps and of the ranges of the columns *)

RECURSIVE ScaleBig(_, _, _)
ScaleBig(d, m, t) == IF t = 0 THEN d ELSE BigMul(ScaleBig(d, m, t - 1), m)

(* the steps of lines 88-99 for a position_lag of 1 on every day *)
EquityOfConstantOne(returns) ==
    LET ones == [t \in DOMAIN returns |-> PosScale]
    IN  EquityCol(NetCol(ClippedCol(RawCol(ones, returns)),
                         TradeCostCol(PositionChangeCol(ones))))

(* C21: buy_hold_curve[t] is the equity the steps of the strategy (raw return,
   clipping into [stop_loss, take_profit], cost on position change,
   compounding from initial_capital) give for a position_lag of 1 on every
   day. *)
C21_BuyHoldBySameSteps ==
    Returned =>
      \A t \in Rows :
        ScaleBig(data.buy_hold_curve[t], PosScale, t)
          = EquityOfConstantOne(data.returns)[t]

(* C22: strategy_clipped[t] lies in [stop_loss, take_profit], is strategy_raw[t]
   when that lies in the interval and the nearer bound when it does not; so
   strategy_net[t] >= stop_loss - trade_cost[t]. *)
C22_Clipped ==
    Returned =>
      \A t \in Rows :
        LET raw == data.strategy_raw[t]
            clp == data.strategy_clipped[t]
            lo  == stop_loss * PosScale
            hi  == take_profit * PosScale
        IN  /\ lo <= clp /\ clp <= hi
            /\ (lo <= raw /\ raw <= hi) => clp = raw
            /\ raw < lo => clp = lo
            /\ raw > hi => clp = hi
            /\ data.strategy_net[t] >= lo - data.trade_cost[t]

(* one run with a gain cut to take_profit or a loss cut to stop_loss on a day
   that also pays a cost *)
C22_Witness ==
    /\ Returned
    /\ \E t \in Rows :
         /\ data.strategy_raw[t] > take_profit * PosScale
         /\ data.strategy_clipped[t] = take_profit * PosScale
         /\ data.trade_cost[t] > 0

(* C23: the signal of every day is -1, 0 or 1; without dynamic sizing the
   position is -1, 0 or 1; with dynamic sizing it lies in [-1, 1] and never
   has the sign opposite to the held position. *)
C23_Ranges ==
    Returned =>
      \A t \in Rows :
        /\ data.signal[t] \in {-1, 0, 1}
        /\ data.held[t] \in {-PosScale, 0, PosScale}
        /\ ~params.dynamic_position => data.position[t] \in {-PosScale, 0, PosScale}
        /\ params.dynamic_position =>
             /\ -PosScale <= data.position[t] /\ data.position[t] <= PosScale
             /\ data.position[t] * data.held[t] >= 0

(* a dynamic run with a day at full size, on a z-score twice the entry band,
   and a day at a size strictly between 0 and 1 *)
C23_Witness ==
    /\ Returned
    /\ params.dynamic_position
    /\ \E t \in Rows : /\ Abs(data.z_score[t]) >= 2 * params.z_entry
                       /\ Abs(data.position[t]) = PosScale
    /\ \E u \in Rows : 0 < Abs(data.position[u]) /\ Abs(data.position[u]) < PosScale

(* C24: z_exit has no influence: for the same frame, window and z_entry, every
   z_exit of the grid gives the position of every day, in both sizing modes,
   and with it the net returns, the equity and the Sharpe ratio that any
   other gives. *)
C24_ZExitWithoutEffect ==
    Returned =>
      \A x \in z_exits :
        LET other == backtest_mean_reversion(input, [params EXCEPT !.z_exit = x])
        IN  /\ other.position = data.position
            /\ other.strategy_net = data.strategy_net
            /\ other.equity_curve = data.equity_curve
            /\ other.sharpe = data.sharpe

(* a held position on a day whose z-score is inside one exit band of the grid
   and outside another *)
C24_Witness ==
    /\ Returned
    /\ \E t \in Rows :
         /\ data.held[t] # 0
         /\ \E x, y \in z_exits : x <= Abs(data.z_score[t]) /\ Abs(data.z_score[t]) < y

-----------------------------------------------------------------------------
(* Properties of the trade log on a dynamically sized position *)

(* a day whose z-score is 0 while a position is held *)
ZeroDay(t) == data.held[t] # 0 /\ data.z_score[t] = 0

HasExit(d) == \E j \in DOMAIN trades : trades[j].Exit_Date = d

HasEntry(d) ==
    \/ in_position /\ entry_date = d
    \/ \E j \in DOMAIN trades : trades[j].Entry_Date = d

(* C25: in a dynamic-sizing run position[t] is 0 exactly if the held position
   is 0 or z_score[t] is 0. So on a day with z_score 0 while a position is
   held the position is 0 for that day only: the trade log closes the open
   trade on that day and opens a new one on the next day whose z_score is
   not 0. *)
C25_ZeroDay ==
    LogRunning =>
      /\ \A t \in Rows :
           data.position[t] = 0 <=> (data.held[t] = 0 \/ data.z_score[t] = 0)
      /\ \A t \in Rows :
           (ZeroDay(t) /\ t + 1 \in Rows /\ data.z_score[t + 1] # 0)
             => data.position[t + 1] # 0
      /\ \A t \in 1..i :
           (ZeroDay(t) /\ Before(data.position, t) # 0) =>
             /\ HasExit(data.index[t])
             /\ i = t => ~in_position
      /\ \A u \in 1..i :
           (data.position[u] # 0 /\ Before(data.position, u) = 0) =>
             /\ HasEntry(data.index[u])
             /\ i = u => (in_position /\ entry_price = data.Close[u])

(* the trade open before a day of z-score 0 is closed on that day and the
   next day opens a new one *)
C25_Witness ==
    /\ LogRunning
    /\ \E t \in Rows :
         /\ ZeroDay(t)
         /\ Before(data.position, t) # 0
         /\ i = t + 1
         /\ data.z_score[t + 1] # 0
         /\ HasExit(data.index[t])
         /\ in_position
         /\ entry_date = data.index[t + 1]

(* C26: every Trade exits strictly after it enters (Days > 0), the Trades are
   in chronological order and do not overlap: a Trade exits no later than the
   next one enters, on the same date exactly when the two are the halves of
   a reversal. *)
C26_TradesOrdered ==
    LogRunning =>
      /\ \A j \in DOMAIN trades :
           /\ trades[j].Entry_Date < trades[j].Exit_Date
           /\ trades[j].Days > 0
      /\ \A j \in DOMAIN trades :
           j < Len(trades) =>
             /\ trades[j].Exit_Date <= trades[j + 1].Entry_Date
             /\ trades[j].Exit_Date = trades[j + 1].Entry_Date
                  <=> Reversal(RowOfDate(trades[j].Exit_Date))
      /\ (in_position /\ trades # <<>>) =>
             /\ trades[Len(trades)].Exit_Date <= entry_date
             /\ trades[Len(trades)].Exit_Date = entry_date
                  <=> Reversal(RowOfDate(entry_date))

(* a ledger of two Trades, the halves of a reversal, the second one closed by
   a flat day *)
C26_Witness ==
    /\ LogRunning
    /\ Len(trades) = 2
    /\ trades[1].Entry_Date < trades[1].Exit_Date
    /\ trades[1].Exit_Date = trades[2].Entry_Date
    /\ trades[2].Entry_Date < trades[2].Exit_Date
    /\ ~in_position

(* C27: the loop reads position[i - 1] only while a trade is open, which is
   never the case at i = 0, so the index does not wrap to the last row; and
   whenever a trade is open at the start of step i, position[i - 1] is not 0,
   its sign is the recorded side, and entry_price and entry_date are set. *)
C27_PreviousRow ==
    LogRunning =>
      /\ (pc = "tradelog" /\ i < LastRow /\ ReadsPrev(in_position, data.position[i + 1]))
           => (i >= 1 /\ PrevPos(data.position, i) = data.position[i])
      /\ in_position =>
           /\ i >= 1
           /\ data.position[i] # 0
           /\ position_type = SideOf(data.position[i])
           /\ entry_price # NaN
           /\ entry_date # NaN

(* the loop is about to read the row before a row that keeps the side *)
C27_Witness ==
    /\ pc = "tradelog"
    /\ i < LastRow
    /\ ReadsPrev(in_position, data.position[i + 1])
    /\ Sign(data.position[i + 1]) = Sign(data.position[i])
    /\ data.position[LastRow] = 0

-----------------------------------------------------------------------------
(* Properties of the Tetris board *)

Frozen(g) == \E y \in DOMAIN g : \E x \in DOMAIN g[y] : g[y][x] # 0

(* the rows of g that are not full, in their order *)
KeptRows(g) == SelectSeq(g, LAMBDA row : ~AllCells(row))

IsPowerOfTwo(n) == \E k \in 0..(MaxShapes * BoardRows) : n = Pow(2, k)

BoardShape ==
    /\ Len(tetris_grid) = GridRows
    /\ \A y \in DOMAIN tetris_grid :
         /\ DOMAIN tetris_grid[y] = 1..GridCols
         /\ ~AllCells(tetris_grid[y])
    /\ IsPowerOfTwo(score)

(* a step that freezes the shape: at shape_pos on a gravity tick, at the end of
   its fall on a drop *)
FreezeStep ==
    /\ shapes' # shapes
    /\ \E pos \in {shape_pos, DropPos(tetris_grid, shape_pos, current_shape)} :
         LET placed == FreezeCells(tetris_grid, current_shape, pos)
             kept == KeptRows(placed)
             k == Len(placed) - Len(kept)
         IN  /\ tetris_grid' = [y \in 1..k |-> EmptyRow] \o kept
             /\ score' = score * Pow(2, k)

(* C28: whatever moves, rotations, drops and gravity ticks are played, the
   board keeps its rows and columns and holds no completely filled row, the
   score is a power of two, and a step that freezes a shape leaves the rows
   that are not full in their order below as many empty rows as were cleared
   and doubles the score once per cleared row *)
C28_ClearedBoard ==
    /\ []BoardShape
    /\ [][shapes' # shapes => FreezeStep]_vars

(* a row was cleared and rows that were not full are left on the board *)
C28_Witness ==
    /\ pc = "tetris"
    /\ score > 1
    /\ Frozen(tetris_grid)

-----------------------------------------------------------------------------
(* Properties of the sorting generators *)

Sorted(colors) == \A k \in 1..(Len(colors) - 1) : colors[k] <= colors[k + 1]

CountOf(colors, h) == Cardinality({k \in DOMAIN colors : colors[k] = h})

Permutation(a, b) ==
    /\ Len(a) = Len(b)
    /\ \A h \in Hues : CountOf(a, h) = CountOf(b, h)

(* C29: for every list, the bubble, insertion, selection and merge generators,
   stepped by the main loop, are exhausted after finitely many steps, and the
   step that exhausts one leaves the list in non-decreasing order of hue and a
   permutation of the list the generator was created on *)
C29_SortsSort ==
    /\ sorting ~> ~sorting
    /\ [][sorting /\ ~sorting' => Sorted(colors_hsv') /\ Permutation(colors_hsv', shuffled)]_vars

(* a generator was exhausted on a list of MaxLen hues that was not in order *)
C29_Witness ==
    /\ pc = "sort"
    /\ ~sorting
    /\ Len(colors_hsv) = MaxLen
    /\ colors_hsv # shuffled

(* insertion_sort is suspended on a list that holds one element twice and
   another not at all *)
InsertionDuplicate ==
    /\ pc = "sort"
    /\ sorting
    /\ sorter.kind = "insertion"
    /\ ~Permutation(colors_hsv, shuffled)

====
